---- MODULE Spec2Model ----
(***************************************************************************)
(* Model of the document synchronization engine of cleancanvas:            *)
(* src/src/hooks/useDocumentSync.ts driven by the host of                  *)
(* src/src/pages/Index.tsx, against a backend row store with a change       *)
(* notification channel.                                                    *)
(*                                                                         *)
(* Every session (browser tab) runs one instance of the hook.  Awaited     *)
(* backend calls are split at the await: one action issues the call, one   *)
(* lets the backend serve it, one runs the continuation of the hook.       *)
(* The backend and the sessions read one wall clock; time passes, if it    *)
(* does, at the moment somebody reads the clock.                            *)
(***************************************************************************)
EXTENDS Integers, FiniteSets, Sequences, TLC

(* ------------------------------ bounds --------------------------------- *)

\* Largest reading of the wall clock (milliseconds) the model explores.
MaxTime == 2
\* Largest known version from which a session may still start a save.
MaxVersion == 3
\* Most calls of saveContent and refreshContent the users make in a run.
MaxCalls == 2
\* Most backend calls that fail in a run.
MaxFailures == 1
\* Most initialization fetches one session has outstanding at a time;
\* a request beyond the bound is one the network never answers.
MaxInFlight == 1
\* The subscriptions of one session are counted up to this number.
MaxListeners == 2

\* Most text nodes of the surface, the longest text of one node, and the
\* largest saved offset, in a call of restoreCursorPosition.
MaxRuns == 3
MaxRunLength == 2
MaxOffset == 7
\* Most timeouts of one kind the editor has pending at a time.
MaxTimers == 2
\* Largest reading of the timer clock of the editing surface, in units of
\* half a debounce delay.
MaxNow == 5
\* Most calls of saveContent of useSocketSync in a run.
MaxSaves == 2

(* ----------------------------- constants ------------------------------- *)

\* The sessions; a session's name is also its clientId (uuidv4()).
Clients == {"A", "B"}
\* The document texts the users type.
Texts == {"", "foo", "bar"}
\* useDocumentSync's default for initialContent.
initialContent == ""
\* null, for a ref, a state or a row that is not there.
None == [none |-> TRUE]
\* The values of the hook's error state.
NoError == "null"
LoadError == "Failed to load document. Please try again."
SetupError == "Failed to initialize. Please check your connection."

\* The delay of the debouncer (useDebounce(localContent, 300)), in units of
\* the timer clock.
Delay == 2

\* The time after which a save of useSocketSync stops waiting for its
\* acknowledgement (5000 ms), in units of the timer clock.
SaveTimeout == 2

VARIABLES
    hook,   \* hook[s]: the state, the refs and the pending calls of session s
    row,    \* the backend row of the document, None while it does not exist
    chan,   \* chan[s]: change notifications on their way to session s
    clock,  \* the wall clock, in milliseconds
    calls,  \* the calls of saveContent and refreshContent made so far
    failures, \* the backend calls that have failed so far
    ev      \* the step taken last: the handler of a session that ran, with
            \* its input and the state it started from, or a backend step

\* The synchronization engine: the sessions and the backend.
sync == <<hook, row, chan, clock, calls, failures, ev>>

VARIABLES
    deb,    \* an instance of useDebounce: its input, its state, its timers
    ed,     \* an instance of TextEditor: its props, its state, its timers
    cur     \* a call of restoreCursorPosition: its inputs and its result

\* The components of the editing surface.
ui == <<deb, ed, cur>>

VARIABLES
    sock    \* an instance of useSocketSync: its state, its saves, its timers

vars == <<hook, row, chan, clock, calls, failures, ev, deb, ed, cur, sock>>

(* ------------------------------ helpers -------------------------------- *)

\* JavaScript's `a || b` on a string: the empty string is falsy.
OrElseStr(a, b) == IF a = "" THEN b ELSE a

\* JavaScript's `a || b` on a number: 0 is falsy.
OrElseNum(a, b) == IF a = 0 THEN b ELSE a

\* new Date(t): a Date object holding the time t in milliseconds.
Date(t) == [ms |-> t]

\* localStorage.setItem(key, x): the stored item, None while there is none.
Item(x) == [value |-> x]

\* new Date(updated_at).getTime(): the column is read back as milliseconds.
GetTime(updated_at) == updated_at

\* The payload the channel delivers for a committed row: payload.new.
Payload(r) ==
    [content |-> r.content, client_id |-> r.client_id,
     version |-> r.version, updated_at |-> r.updated_at]

\* The effect of useDocumentSync lists `content` among its dependencies:
\* whenever a handler leaves the content state changed, React runs the
\* effect again, and with it initializeDocument, which issues a new fetch.
RunEffect(old, new) ==
    IF new.content # old.content
    THEN [new EXCEPT !.initFetch =
              IF @ + Cardinality(new.initResp) < MaxInFlight THEN @ + 1 ELSE @]
    ELSE new

(* --------------------------- initial state ----------------------------- *)

\* The hook right after its first render: the effect has run once and the
\* first fetch of initializeDocument is on its way.  The ref
\* lastProcessedUpdateRef is written and never read; it is left out.
\* lastAccepted is a history field: the notification the callback applied
\* last, since the session's last save or refresh.  mounted tells whether
\* the component that uses the hook is still on the page.
InitialHook ==
    [mounted |-> TRUE,
     content |-> initialContent,
     loading |-> TRUE,
     error |-> NoError,
     isSaving |-> FALSE,
     isRefreshing |-> FALSE,
     lastSaved |-> None,
     isLocalUpdate |-> FALSE,
     documentVersionRef |-> 0,
     lastServerTimestampRef |-> 0,
     lastSavedContentRef |-> initialContent,
     localStorage |-> None,
     listeners |-> 0,
     initFetch |-> 1,
     initResp |-> {},
     insertCall |-> None,
     saveCall |-> None,
     refreshCall |-> None,
     resetTimers |-> 0,
     lastAccepted |-> None]

\* useDebounce right after its first render: debouncedValue starts as the
\* value, and the effect, finding them equal, sets no timer.  timers are
\* the timeouts that are set; timer is the one the cleanup of the effect
\* will clear.  now, changedAt and last are history: the time, the time of
\* the last change of the input, and the step taken last.
InitialDebounce ==
    [value |-> "",
     debouncedValue |-> "",
     timers |-> {},
     timer |-> None,
     now |-> 0,
     changedAt |-> 0,
     last |-> [op |-> "mount"]]

\* TextEditor right after its first render with the prop content = c:
\* localContent starts as the prop, and so does the debounced content.  The
\* editable div is rendered without children: the surface is empty until
\* the user types or an effect assigns innerText.  restoreTimers and
\* composeTimers count the timeouts that are set; composing (an input
\* method session is open on the surface) and last (the step taken last,
\* with the calls of onChange it made) are history.
InitialEditor(c) ==
    [mounted |-> TRUE,
     content |-> c,
     isLocalUpdate |-> FALSE,
     localContent |-> c,
     debouncedContent |-> c,
     surface |-> "",
     isComposing |-> FALSE,
     isProcessingUpdate |-> FALSE,
     composing |-> FALSE,
     restoreTimers |-> 0,
     composeTimers |-> 0,
     last |-> [op |-> "mount"]]

\* No call of restoreCursorPosition has been made.
IdleCursor ==
    [runs |-> <<>>, start |-> 0, end |-> 0, focused |-> FALSE,
     result |-> None]

\* useSocketSync once the document has loaded: no save has been made.
\* saves are the calls of saveContent made so far, each with its text,
\* whether its onSaved listens for document_saved, whether its timeout is
\* pending and when it is due, and whether its promise has settled; acked
\* (the acknowledgement onSaved has handled: "none", "success" or
\* "failure"), now and last are history.
\* unacked counts the document_update messages the server has not answered.
InitialSocket ==
    [content |-> initialContent,
     lastSaved |-> None,
     isSaving |-> FALSE,
     saves |-> <<>>,
     unacked |-> 0,
     now |-> 0,
     last |-> [op |-> "mount"]]

\* The editing surface before anything has happened on it.
UiInit ==
    /\ deb = InitialDebounce
    /\ ed = InitialEditor("")
    /\ cur = IdleCursor
    /\ sock = InitialSocket
    /\ sock = InitialSocket

\* The sessions and the backend before anything has happened.
SyncInit ==
    /\ hook = [s \in Clients |-> InitialHook]
    /\ row = None
    /\ chan = [s \in Clients |-> {}]
    /\ clock = 1
    /\ calls = 0
    /\ failures = 0
    /\ ev = [op |-> "mount"]

Init ==
    /\ deb = InitialDebounce
    /\ ed = InitialEditor("")
    /\ cur = IdleCursor
    /\ sock = InitialSocket
    /\ hook = [s \in Clients |-> InitialHook]
    /\ row = None
    /\ chan = [s \in Clients |-> {}]
    /\ clock = 1
    /\ calls = 0
    /\ failures = 0
    /\ ev = [op |-> "mount"]

(* ------------------------------- clock --------------------------------- *)

\* Reading the clock (Date.now(), new Date(), the backend stamping
\* updated_at): dt milliseconds have passed since it was last read.
ReadClock(dt) ==
    /\ dt \in {0, 1}
    /\ clock + dt <= MaxTime
    /\ clock' = clock + dt

\* A backend call fails, or it does not.
Outcome(fails) ==
    IF fails
    THEN failures < MaxFailures /\ failures' = failures + 1
    ELSE UNCHANGED failures

(* ----------------------- change notifications -------------------------- *)

\* The callback without its check for the session's own echo.
IsOwnUpdate_Never(updateClientId, clientId) == FALSE

\* `updateClientId === clientId`: the update is this session's own echo.
IsOwnUpdate(updateClientId, clientId) == updateClientId = clientId

\* The callback asking for a newer timestamp and a higher version.
IsNewerUpdate_NeedsVersion(updateTimestamp, updateVersion, h) ==
    /\ updateTimestamp > h.lastServerTimestampRef
    /\ updateVersion > h.documentVersionRef

\* The callback breaking a tie of timestamps by the version.
IsNewerUpdate_TieBreak(updateTimestamp, updateVersion, h) ==
    \/ updateTimestamp > h.lastServerTimestampRef
    \/ /\ updateTimestamp = h.lastServerTimestampRef
       /\ updateVersion > h.documentVersionRef

\* The callback comparing with >= where the code has >.
IsNewerUpdate_OrEqual(updateTimestamp, updateVersion, h) ==
    updateTimestamp >= h.lastServerTimestampRef

\* The callback comparing versions where the code compares timestamps.
IsNewerUpdate_ByVersion(updateTimestamp, updateVersion, h) ==
    updateVersion >= h.documentVersionRef

\* `updateTimestamp > lastServerTimestampRef.current`: the only condition
\* under which an update of another client is applied.
IsNewerUpdate(updateTimestamp, updateVersion, h) ==
    updateTimestamp > h.lastServerTimestampRef

\* The callback applies p: p is not the session's own and it is newer.
Applies(h, s, p) ==
    /\ ~IsOwnUpdate(p.client_id, s)
    /\ IsNewerUpdate(GetTime(p.updated_at), OrElseNum(p.version, 0), h)

\* The callback taking over the text and the timestamp of an update but
\* not its version.
OnPostgresChange_KeepsVersion(h, s, p) ==
    IF p.client_id # s /\ p.updated_at > h.lastServerTimestampRef
    THEN [h EXCEPT !.content = p.content,
                   !.lastSavedContentRef = p.content,
                   !.lastSaved = Date(p.updated_at),
                   !.lastServerTimestampRef = p.updated_at,
                   !.lastAccepted = p]
    ELSE h

\* The postgres_changes callback of session s on payload.new = p.
OnPostgresChange(h, s, p) ==
    LET newContent == p.content
        updateClientId == p.client_id
        updateVersion == OrElseNum(p.version, 0)
        updateTimestamp == GetTime(p.updated_at)
    IN  IF IsOwnUpdate(updateClientId, s)
        THEN h
        ELSE IF IsNewerUpdate(updateTimestamp, updateVersion, h)
        THEN [h EXCEPT
                !.content = newContent,
                !.lastSavedContentRef = newContent,
                !.lastSaved = IF p.updated_at # 0 THEN Date(p.updated_at) ELSE @,
                !.lastServerTimestampRef = updateTimestamp,
                !.documentVersionRef = updateVersion,
                !.lastAccepted = p]
        ELSE h

\* Every subscription the session has made runs the callback on p.
RECURSIVE RunListeners(_, _, _, _)
RunListeners(h, s, p, k) ==
    IF k = 0 THEN h ELSE RunListeners(OnPostgresChange(h, s, p), s, p, k - 1)

\* A handler that ran in a component that is no longer mounted: React drops
\* its state updates (setContent, setLastSaved), its writes to the refs
\* stand.
StateUpdatesDropped(old, new) ==
    [new EXCEPT !.content = old.content, !.lastSaved = old.lastSaved]

\* The channel delivers p to session s.  Delivery is at-least-once and in
\* any order: a notification announced to s can arrive at any later time,
\* any number of times.
Deliver(s, p) ==
    /\ p \in chan[s]
    /\ hook[s].listeners > 0
    /\ hook' = [hook EXCEPT ![s] =
                  IF @.mounted
                  THEN RunEffect(@, RunListeners(@, s, p, @.listeners))
                  ELSE StateUpdatesDropped(@, RunListeners(@, s, p, @.listeners))]
    /\ ev' = [op |-> "deliver", s |-> s, p |-> p, before |-> hook[s],
              applied |-> Applies(hook[s], s, p),
              again |-> (ev.op = "deliver" /\ ev.s = s /\ ev.p = p)]
    /\ UNCHANGED <<row, chan, clock, calls, failures>>
    /\ UNCHANGED <<ui, sock>>

\* A committed update of the row is announced to every subscriber, the
\* writer included.
Broadcast(r) ==
    [t \in Clients |->
        IF hook[t].listeners > 0 THEN chan[t] \cup {Payload(r)} ELSE chan[t]]

(* --------------------------- initialization ---------------------------- *)

\* .channel('documents-changes').on('postgres_changes', ...).subscribe()
\* followed by setLoading(false): the tail of initializeDocument.  Nothing
\* ever unsubscribes an earlier subscription of the session.
Subscribe(h) ==
    [h EXCEPT !.listeners = IF @ < MaxListeners THEN @ + 1 ELSE @,
              !.loading = FALSE]

\* The backend answers a fetch of initializeDocument: the row as it is
\* now, not-found (PGRST116) while there is none, or a failure.
InitFetchServe(s, fails) ==
    /\ hook[s].initFetch > 0
    /\ Outcome(fails)
    /\ LET resp == IF fails THEN [kind |-> "error"]
                   ELSE IF row = None THEN [kind |-> "PGRST116"]
                   ELSE [kind |-> "data", data |-> row]
       IN  hook' = [hook EXCEPT ![s].initFetch = @ - 1,
                                ![s].initResp = @ \cup {resp}]
    /\ ev' = [op |-> "backend"]
    /\ UNCHANGED <<row, chan, clock, calls>>
    /\ UNCHANGED <<ui, sock>>

\* initializeDocument after a fetch that returned data.
InitLoaded(h, s, data) ==
    LET serverTimestamp == GetTime(data.updated_at)
        h1 == [h EXCEPT
                 !.content = OrElseStr(data.content, initialContent),
                 !.lastSavedContentRef = OrElseStr(data.content, initialContent),
                 !.lastSaved = IF data.updated_at # 0
                               THEN Date(data.updated_at) ELSE @,
                 !.lastServerTimestampRef = IF data.updated_at # 0
                                            THEN serverTimestamp ELSE @,
                 !.documentVersionRef = IF data.version # 0
                                        THEN data.version ELSE @]
    IN  h1

\* initializeDocument raising the error without looking for a backup.
InitFailed_NoRecovery(h) == [h EXCEPT !.error = LoadError]

\* initializeDocument after a fetch that failed with another error than
\* not-found: the error state, and the local-storage copy when there is a
\* non-empty one.
InitFailed(h) ==
    LET savedContent == h.localStorage
    IN  IF savedContent # None /\ savedContent.value # ""
        THEN [h EXCEPT !.error = LoadError,
                       !.content = savedContent.value,
                       !.lastSavedContentRef = savedContent.value]
        ELSE [h EXCEPT !.error = LoadError]

\* The continuation of initializeDocument once its fetch has resolved.
InitFetchHandle(s, resp) ==
    /\ resp \in hook[s].initResp
    /\ LET h == [hook[s] EXCEPT !.initResp = @ \ {resp}]
       IN  hook' = [hook EXCEPT ![s] =
             IF resp.kind = "PGRST116"
             THEN [h EXCEPT !.insertCall = [result |-> "pending"]]
             ELSE IF resp.kind = "error"
             THEN RunEffect(h, Subscribe(InitFailed(h)))
             ELSE RunEffect(h, Subscribe(InitLoaded(h, s, resp.data)))]
    /\ ev' = [op |-> "initFetchHandle", s |-> s, resp |-> resp,
              before |-> hook[s]]
    /\ UNCHANGED <<row, chan, clock, calls, failures>>
    /\ UNCHANGED <<ui, sock>>

\* The row of an insert that starts the document at version 0.
NewDocument_VersionZero(s, t) ==
    [content |-> initialContent, client_id |-> s, version |-> 0,
     updated_at |-> t]

\* .insert({ id, content: initialContent, client_id: clientId, version: 1 })
\* committed at time t.
NewDocument(s, t) ==
    [content |-> initialContent, client_id |-> s, version |-> 1,
     updated_at |-> t]

\* The backend serves the insert of initializeDocument: the row is created
\* unless it exists by now (duplicate key) or the call fails.
InsertServe(s, fails, dt) ==
    /\ hook[s].insertCall = [result |-> "pending"]
    /\ Outcome(fails)
    /\ IF ~fails /\ row = None
       THEN /\ ReadClock(dt)
            /\ row' = NewDocument(s, clock')
            /\ hook' = [hook EXCEPT ![s].insertCall = [result |-> "ok"]]
       ELSE /\ dt = 0
            /\ hook' = [hook EXCEPT ![s].insertCall = [result |-> "insertError"]]
            /\ UNCHANGED <<row, clock>>
    /\ ev' = [op |-> "backend"]
    /\ UNCHANGED <<chan, calls>>
    /\ UNCHANGED <<ui, sock>>

\* initializeDocument after the insert: on success the session starts from
\* version 1 and its own clock; insertError is thrown and caught by the
\* outer catch, which skips the subscription.
InsertHandle(s, dt) ==
    /\ hook[s].insertCall # None
    /\ hook[s].insertCall.result # "pending"
    /\ IF hook[s].insertCall.result = "ok"
       THEN ReadClock(dt)
       ELSE dt = 0 /\ UNCHANGED clock
    /\ LET h == [hook[s] EXCEPT !.insertCall = None]
       IN  hook' = [hook EXCEPT ![s] =
             IF hook[s].insertCall.result = "ok"
             THEN RunEffect(h, Subscribe(
                    [h EXCEPT !.content = initialContent,
                              !.lastSavedContentRef = initialContent,
                              !.documentVersionRef = 1,
                              !.lastServerTimestampRef = clock']))
             ELSE [h EXCEPT !.error = SetupError, !.loading = FALSE]]
    /\ ev' = [op |-> "insertHandle", s |-> s, before |-> hook[s]]
    /\ UNCHANGED <<row, chan, calls, failures>>
    /\ UNCHANGED <<ui, sock>>

(* -------------------------------- save --------------------------------- *)

\* saveContent comparing with the displayed content, not the saved one.
IsUnchanged_VsContent(newContent, h) == newContent = h.content

\* `newContent === lastSavedContentRef.current`: nothing to save.
IsUnchanged(newContent, h) == newContent = h.lastSavedContentRef

\* A Save button that stays enabled while a save is under way.
CanSave_Always(h) == TRUE

\* The Save button of Index, the only caller of saveContent, is disabled
\* while isSaving.
CanSave(h) == ~h.isSaving

\* saveContent(newContent) up to its await, called by handleSave of the
\* Index host: the editor and its Save button exist only once the document
\* has loaded without error, and the button is disabled while isSaving.
SaveContent(s, newContent) ==
    /\ hook[s].mounted
    /\ ~hook[s].loading
    /\ hook[s].error = NoError
    /\ CanSave(hook[s])
    /\ hook[s].documentVersionRef < MaxVersion
    /\ calls < MaxCalls
    /\ calls' = calls + 1
    /\ hook' = [hook EXCEPT ![s] =
          IF IsUnchanged(newContent, @)
          THEN @
          ELSE RunEffect(@,
                 [@ EXCEPT !.lastAccepted = None,
                           !.isLocalUpdate = TRUE,
                           !.content = newContent,
                           !.localStorage = Item(newContent),
                           !.isSaving = TRUE,
                           !.documentVersionRef = @ + 1,
                           !.saveCall =
                              [content |-> newContent, client_id |-> s,
                               version |-> hook[s].documentVersionRef + 1,
                               result |-> "pending"]])]
    /\ ev' = [op |-> "saveContent", s |-> s, x |-> newContent,
              before |-> hook[s]]
    /\ UNCHANGED <<row, chan, clock, failures>>
    /\ UNCHANGED <<ui, sock>>

\* The backend serves the update: it replaces the row, stamps updated_at
\* and announces the new row, or it fails (an error result or a rejected
\* call) and leaves the row alone.  An update of a missing row matches
\* nothing and succeeds.
SaveServe(s, outcome, dt) ==
    /\ hook[s].saveCall # None
    /\ hook[s].saveCall.result = "pending"
    /\ outcome \in {"ok", "error", "throw"}
    /\ Outcome(outcome # "ok")
    /\ hook' = [hook EXCEPT ![s].saveCall.result = outcome]
    /\ IF outcome = "ok" /\ row # None
       THEN /\ ReadClock(dt)
            /\ LET r == [content |-> hook[s].saveCall.content,
                         client_id |-> hook[s].saveCall.client_id,
                         version |-> hook[s].saveCall.version,
                         updated_at |-> clock']
               IN  /\ row' = r
                   /\ chan' = Broadcast(r)
       ELSE /\ dt = 0
            /\ UNCHANGED <<row, chan, clock>>
    /\ ev' = [op |-> "backend"]
    /\ UNCHANGED calls
    /\ UNCHANGED <<ui, sock>>

\* The rollback of a failed save also raising the blocking error.
RevertVersion_SetsError(h) ==
    [h EXCEPT !.documentVersionRef = @ - 1, !.error = SetupError]

\* `documentVersionRef.current -= 1`: the rollback of a failed save.
RevertVersion(h) == [h EXCEPT !.documentVersionRef = @ - 1]

\* saveContent after its await: the success branch, the error branch or
\* the catch, and then the finally block.
SaveHandle(s, dt) ==
    /\ hook[s].saveCall # None
    /\ hook[s].saveCall.result # "pending"
    /\ IF hook[s].saveCall.result = "ok"
       THEN ReadClock(dt)
       ELSE dt = 0 /\ UNCHANGED clock
    /\ LET call == hook[s].saveCall
           h == hook[s]
           h1 == IF call.result = "ok"
                 THEN [h EXCEPT
                         !.lastSaved = Date(clock'),
                         !.lastSavedContentRef = call.content,
                         !.lastServerTimestampRef = clock']
                 ELSE RevertVersion(h)
       IN  hook' = [hook EXCEPT ![s] =
             [h1 EXCEPT !.isSaving = FALSE,
                        !.saveCall = None,
                        !.lastAccepted = None,
                        !.resetTimers = IF @ < MaxInFlight THEN @ + 1 ELSE @]]
    /\ ev' = [op |-> "saveHandle", s |-> s, before |-> hook[s]]
    /\ UNCHANGED <<row, chan, calls, failures>>
    /\ UNCHANGED <<ui, sock>>

\* setTimeout(() => setIsLocalUpdate(false), 5000) fires.
ResetLocalUpdate(s) ==
    /\ hook[s].resetTimers > 0
    /\ hook' = [hook EXCEPT ![s].resetTimers = @ - 1,
                            ![s].isLocalUpdate = FALSE]
    /\ ev' = [op |-> "resetLocalUpdate", s |-> s, before |-> hook[s]]
    /\ UNCHANGED <<row, chan, clock, calls, failures>>
    /\ UNCHANGED <<ui, sock>>

(* ------------------------------ refresh -------------------------------- *)

\* refreshContent up to its await, called by handleRefresh of the Index
\* host.  The closure keeps the content of the render it was called from.
RefreshContent(s) ==
    /\ hook[s].mounted
    /\ ~hook[s].loading
    /\ hook[s].error = NoError
    /\ ~hook[s].isRefreshing
    /\ calls < MaxCalls
    /\ calls' = calls + 1
    /\ hook' = [hook EXCEPT ![s].isRefreshing = TRUE,
                            ![s].lastAccepted = None,
                            ![s].refreshCall =
                               [result |-> "pending",
                                content |-> hook[s].content]]
    /\ ev' = [op |-> "refreshContent", s |-> s, before |-> hook[s]]
    /\ UNCHANGED <<row, chan, clock, failures>>
    /\ UNCHANGED <<ui, sock>>

\* The backend answers the fetch of refreshContent.
RefreshServe(s, outcome) ==
    /\ hook[s].refreshCall # None
    /\ hook[s].refreshCall.result = "pending"
    /\ outcome \in {"ok", "error", "throw"}
    /\ Outcome(outcome # "ok")
    /\ hook' = [hook EXCEPT ![s].refreshCall =
          IF outcome = "ok" /\ row # None
          THEN [result |-> "data", content |-> @.content, data |-> row]
          ELSE IF outcome = "throw"
          THEN [result |-> "throw", content |-> @.content]
          ELSE [result |-> "error", content |-> @.content]]
    /\ ev' = [op |-> "backend"]
    /\ UNCHANGED <<row, chan, clock, calls>>
    /\ UNCHANGED <<ui, sock>>

\* refreshContent after a fetch that returned data.
Refreshed(h, content, data) ==
    LET serverTimestamp == GetTime(data.updated_at)
    IN  IF data.content # content
        THEN [h EXCEPT
                !.content = data.content,
                !.lastSavedContentRef = data.content,
                !.lastSaved = Date(data.updated_at),
                !.lastServerTimestampRef = serverTimestamp,
                !.documentVersionRef = data.version]
        ELSE h

\* refreshContent treating a failed fetch like a failed initial load.
RefreshResult_ErrorState(h, call) ==
    IF call.result = "data"
    THEN Refreshed(h, call.content, call.data)
    ELSE [h EXCEPT !.error = LoadError]

\* refreshContent once its fetch has resolved: `if (error) return` and the
\* catch leave the session alone, data goes to the comparison.
RefreshResult(h, call) ==
    IF call.result = "data"
    THEN Refreshed(h, call.content, call.data)
    ELSE h

\* refreshContent after its await, and its finally block.
RefreshHandle(s) ==
    /\ hook[s].refreshCall # None
    /\ hook[s].refreshCall.result # "pending"
    /\ LET call == hook[s].refreshCall
           h == [hook[s] EXCEPT !.refreshCall = None, !.lastAccepted = None]
           h1 == RefreshResult(h, call)
       IN  hook' = [hook EXCEPT ![s] =
                      RunEffect(hook[s], [h1 EXCEPT !.isRefreshing = FALSE])]
    /\ ev' = [op |-> "refreshHandle", s |-> s, before |-> hook[s]]
    /\ UNCHANGED <<row, chan, clock, calls, failures>>
    /\ UNCHANGED <<ui, sock>>

(* --------------------------- specification ----------------------------- *)

\* The sessions whose every handler, backend failure and notification is
\* explored.  Of the other sessions the runs explored are those in which
\* they initialize and save successfully, so that the observed sessions
\* receive the notifications of their writes; the rest of their traffic is
\* still under way when the run ends.
Observed == {"A"}

Next ==
    \/ \E s \in Clients, fails \in BOOLEAN :
          /\ s \in Observed \/ (~fails /\ hook[s].loading)
          /\ InitFetchServe(s, fails)
    \/ \E s \in Clients : \E resp \in hook[s].initResp : InitFetchHandle(s, resp)
    \/ \E s \in Clients, fails \in BOOLEAN, dt \in {0, 1} :
          /\ s \in Observed \/ ~fails
          /\ InsertServe(s, fails, dt)
    \/ \E s \in Clients, dt \in {0, 1} : InsertHandle(s, dt)
    \/ \E s \in Clients, x \in Texts : SaveContent(s, x)
    \/ \E s \in Clients, o \in {"ok", "error", "throw"}, dt \in {0, 1} :
          /\ s \in Observed \/ o = "ok"
          /\ SaveServe(s, o, dt)
    \/ \E s \in Clients, dt \in {0, 1} : SaveHandle(s, dt)
    \/ \E s \in Observed : ResetLocalUpdate(s)
    \/ \E s \in Observed : RefreshContent(s)
    \/ \E s \in Observed, o \in {"ok", "error", "throw"} : RefreshServe(s, o)
    \/ \E s \in Observed : RefreshHandle(s)
    \/ \E s \in Observed : \E p \in chan[s] : Deliver(s, p)

Spec == Init /\ [][Next]_vars

(* ----------------------- one session on its own ------------------------ *)

\* The runs of session A in which no other session writes and the user
\* never asks for a refresh: A initializes, saves (the backend may fail),
\* hears its own echoes, and its effect runs again when content changes.
SoloNext ==
    \/ \E fails \in BOOLEAN : InitFetchServe("A", fails)
    \/ \E resp \in hook["A"].initResp : InitFetchHandle("A", resp)
    \/ \E fails \in BOOLEAN, dt \in {0, 1} : InsertServe("A", fails, dt)
    \/ \E dt \in {0, 1} : InsertHandle("A", dt)
    \/ \E x \in Texts : SaveContent("A", x)
    \/ \E o \in {"ok", "error", "throw"}, dt \in {0, 1} : SaveServe("A", o, dt)
    \/ \E dt \in {0, 1} : SaveHandle("A", dt)
    \/ ResetLocalUpdate("A")
    \/ \E p \in chan["A"] : Deliver("A", p)

SpecSolo == Init /\ [][SoloNext]_vars

(* -------------------- two sessions writing at once --------------------- *)

\* A session that has loaded the row r and is at rest.
LoadedHook(r, subscriptions, backup) ==
    [InitialHook EXCEPT
        !.content = r.content,
        !.lastSavedContentRef = r.content,
        !.loading = FALSE,
        !.lastSaved = Date(r.updated_at),
        !.documentVersionRef = r.version,
        !.lastServerTimestampRef = GetTime(r.updated_at),
        !.localStorage = backup,
        !.listeners = subscriptions,
        !.initFetch = 0]

\* The row at version 2, as A's save of "base" left it.
BaseRow ==
    [content |-> "base", client_id |-> "A", version |-> 2, updated_at |-> 1]

\* A has created the document and saved "base" (version 2), its effect has
\* run again after the save; B has loaded the row since, and the fetch of
\* the effect that its new content started is under way.  Both know
\* version 2.
RaceHooks ==
    [s \in Clients |->
        IF s = "A" THEN LoadedHook(BaseRow, 2, Item("base"))
        ELSE [LoadedHook(BaseRow, 1, None) EXCEPT !.initFetch = 1]]

RaceInit ==
    /\ UiInit
    /\ hook = RaceHooks
    /\ row = BaseRow
    /\ chan = [s \in Clients |-> IF s = "A" THEN {Payload(BaseRow)} ELSE {}]
    /\ clock = 1
    /\ calls = 0
    /\ failures = 0
    /\ ev = [op |-> "mount"]

\* A saves "foo" and B, unaware of it, saves "bar"; the backend commits A's
\* write first and B's write at a later time.  A's acknowledgement, its
\* notifications and the fetch of its effect arrive in any order.
RaceNext ==
    \/ SaveContent("A", "foo")
    \/ SaveContent("B", "bar")
    \/ \E dt \in {0, 1} : SaveServe("A", "ok", dt)
    \/ /\ row.client_id = "A" /\ row.version = 3
       /\ SaveServe("B", "ok", 1)
    \/ \E s \in Clients, dt \in {0, 1} : SaveHandle(s, dt)
    \/ ResetLocalUpdate("A")
    \/ InitFetchServe("A", FALSE)
    \/ \E resp \in hook["A"].initResp : InitFetchHandle("A", resp)
    \/ \E p \in chan["A"] : Deliver("A", p)

SpecRace == RaceInit /\ [][RaceNext]_vars

(* ------------------ create, load, save: the first edit ----------------- *)

\* Session A finds no document and creates it; session B loads the row A
\* has created; A then saves "hello", which the backend commits at a later
\* millisecond than the creation.  It is A's first and only save, and no
\* backend call fails.
HelloNext ==
    \/ InitFetchServe("A", FALSE)
    \/ row # None /\ InitFetchServe("B", FALSE)
    \/ \E s \in Clients : \E resp \in hook[s].initResp : InitFetchHandle(s, resp)
    \/ \E dt \in {0, 1} : InsertServe("A", FALSE, dt)
    \/ \E dt \in {0, 1} : InsertHandle("A", dt)
    \/ /\ ~hook["B"].loading
       /\ hook["A"].localStorage = None
       /\ SaveContent("A", "hello")
    \/ SaveServe("A", "ok", 1)
    \/ \E dt \in {0, 1} : SaveHandle("A", dt)
    \/ ResetLocalUpdate("A")
    \/ \E s \in Clients : \E p \in chan[s] : Deliver(s, p)

SpecHello == Init /\ [][HelloNext]_vars

(* ------------------------ a page that is reloaded ---------------------- *)

\* What localStorage may hold for the document when the page is opened:
\* nothing, or the text an earlier page of this browser has left there.
Backups == {None} \cup {Item(x) : x \in Texts}

\* The rows an earlier session, under its own clientId, may have left.
EarlierRows ==
    {[content |-> x, client_id |-> "B", version |-> 2, updated_at |-> 1] :
        x \in Texts}

\* The page is opened in a browser that may hold a backup, on a document
\* that may exist: the hook starts afresh, localStorage and the row do not.
ReloadInit ==
    /\ UiInit
    /\ \E b \in Backups :
          hook = [s \in Clients |->
                    IF s = "A" THEN [InitialHook EXCEPT !.localStorage = b]
                    ELSE InitialHook]
    /\ row \in {None} \cup EarlierRows
    /\ chan = [s \in Clients |-> {}]
    /\ clock = 1
    /\ calls = 0
    /\ failures = 0
    /\ ev = [op |-> "mount"]

SpecReload == ReloadInit /\ [][SoloNext]_vars

(* ------------------------------ teardown ------------------------------- *)

\* The component of session s is unmounted while the session is at rest (no
\* call of the hook is out).  React runs the cleanup of the effect, which
\* removes the beforeunload handler; the function that unsubscribes is the
\* return value of the async initializeDocument, which nobody calls.
Teardown(s) ==
    /\ hook[s].mounted
    /\ ~hook[s].loading
    /\ hook[s].initFetch = 0 /\ hook[s].initResp = {}
    /\ hook[s].insertCall = None
    /\ hook[s].saveCall = None
    /\ hook[s].refreshCall = None
    /\ hook' = [hook EXCEPT ![s].mounted = FALSE]
    /\ ev' = [op |-> "teardown", s |-> s, before |-> hook[s]]
    /\ UNCHANGED <<row, chan, clock, calls, failures>>
    /\ UNCHANGED <<ui, sock>>

\* Session A creates the document and B loads it; A's component is torn
\* down; B then saves, and the channel delivers to what is subscribed.
TeardownNext ==
    \/ InitFetchServe("A", FALSE)
    \/ row # None /\ InitFetchServe("B", FALSE)
    \/ \E s \in Clients : \E resp \in hook[s].initResp : InitFetchHandle(s, resp)
    \/ \E dt \in {0, 1} : InsertServe("A", FALSE, dt)
    \/ \E dt \in {0, 1} : InsertHandle("A", dt)
    \/ Teardown("A")
    \/ ~hook["A"].mounted /\ \E x \in Texts : SaveContent("B", x)
    \/ \E dt \in {0, 1} : SaveServe("B", "ok", dt)
    \/ \E dt \in {0, 1} : SaveHandle("B", dt)
    \/ \E p \in chan["A"] : Deliver("A", p)

SpecTeardown == Init /\ [][TeardownNext]_vars

(* ----------------------------- useDebounce ----------------------------- *)

\* The effect of useDebounce runs again (its dependencies are value, delay
\* and debouncedValue): the cleanup of the run before clears the timeout
\* that run had set, and a new timeout is set only if the value is not the
\* debounced value.
DebounceEffect(d) ==
    LET cleared == d.timers \ {d.timer}
        t == [value |-> d.value, due |-> d.now + Delay]
    IN  IF d.value # d.debouncedValue
        THEN [d EXCEPT !.timers = cleared \cup {t}, !.timer = t]
        ELSE [d EXCEPT !.timers = cleared, !.timer = None]

\* What a step of the debouncer can change, without the history.
DebounceState(d) ==
    [value |-> d.value, debouncedValue |-> d.debouncedValue,
     timers |-> d.timers, timer |-> d.timer]

\* The component renders with a new value v.
DebounceInput(v) ==
    /\ v # deb.value
    /\ deb' = [DebounceEffect([deb EXCEPT !.value = v, !.changedAt = deb.now])
                 EXCEPT !.last = [op |-> "input", v |-> v,
                                  before |-> DebounceState(deb)]]
    /\ UNCHANGED <<sync, ed, cur, sock>>

\* The timeout t fires, at its time or later: setDebouncedValue(value) with
\* the value the timeout has captured.  A changed state renders again and
\* runs the effect.
DebounceFire(t) ==
    /\ t \in deb.timers
    /\ deb.now >= t.due
    /\ LET d == [deb EXCEPT !.debouncedValue = t.value, !.timers = @ \ {t}]
           d1 == IF t.value # deb.debouncedValue THEN DebounceEffect(d) ELSE d
       IN  deb' = [d1 EXCEPT !.last = [op |-> "fire", t |-> t,
                                        before |-> DebounceState(deb)]]
    /\ UNCHANGED <<sync, ed, cur, sock>>

\* Time passes on the timer clock.
DebounceTick ==
    /\ deb.now < MaxNow
    /\ deb' = [deb EXCEPT !.now = @ + 1, !.last = [op |-> "tick"]]
    /\ UNCHANGED <<sync, ed, cur, sock>>

DebounceNext ==
    \/ \E v \in Texts : DebounceInput(v)
    \/ \E t \in deb.timers : DebounceFire(t)
    \/ DebounceTick

SpecDebounce == Init /\ [][DebounceNext]_vars

(* ----------------------------- TextEditor ------------------------------ *)

\* The effect "update local content when content prop changes": skipped
\* during a local update, a processing update or a composition; otherwise a
\* differing prop replaces the local content and the surface, and a
\* timeout of 50 ms is set that restores the cursor and clears the flag.
ExternalUpdate(e) ==
    IF e.isLocalUpdate \/ e.isProcessingUpdate \/ e.isComposing
    THEN e
    ELSE IF e.content # e.localContent
    THEN [e EXCEPT !.isProcessingUpdate = TRUE,
                   !.localContent = e.content,
                   !.surface = e.content,
                   !.restoreTimers = @ + 1]
    ELSE e

\* The effect "send debounced content updates to parent": the calls of
\* onChange it makes in the render e.
DebouncedSend(e) ==
    IF e.isProcessingUpdate \/ e.isComposing
    THEN <<>>
    ELSE IF e.debouncedContent # e.content
    THEN <<e.debouncedContent>>
    ELSE <<>>

\* The unmount flush comparing the debounced content, not the local one.
UnmountFlush_Debounced(e) ==
    IF e.debouncedContent # e.content THEN <<e.debouncedContent>> ELSE <<>>

\* The cleanup of the effect "force a save when the component unmounts",
\* with the localContent and the content of the render e it belongs to:
\* the calls of onChange it makes.
UnmountFlush(e) ==
    IF e.localContent # e.content THEN <<e.localContent>> ELSE <<>>

\* React commits a render after the render prev: the cleanups of the
\* effects whose dependencies changed, then those effects, with the values
\* of the render; when an effect has set state, the next render is committed the
\* same way.  The result is the editor and the calls of onChange made.
RECURSIVE Commit(_, _, _)
Commit(prev, render, made) ==
    LET flushed == IF prev.localContent # render.localContent
                      \/ prev.content # render.content
                   THEN UnmountFlush(prev) ELSE <<>>
        next == IF \/ prev.content # render.content
                   \/ prev.localContent # render.localContent
                   \/ prev.isComposing # render.isComposing
                   \/ prev.isLocalUpdate # render.isLocalUpdate
                   \/ prev.isProcessingUpdate # render.isProcessingUpdate
                THEN ExternalUpdate(render) ELSE render
        sent == IF \/ prev.debouncedContent # render.debouncedContent
                   \/ prev.content # render.content
                   \/ prev.isProcessingUpdate # render.isProcessingUpdate
                   \/ prev.isComposing # render.isComposing
                THEN DebouncedSend(render) ELSE <<>>
        calls1 == made \o flushed \o sent
    IN  IF next = render
        THEN [editor |-> render, calls |-> calls1]
        ELSE Commit(render, next, calls1)

\* The editor without its history.
EditorState(e) == [e EXCEPT !.last = None]

\* A handler has set state: the editor after the renders that follow, with
\* the step recorded.
Rendered(op, render) ==
    LET c == Commit(ed, render, <<>>)
    IN  [c.editor EXCEPT !.last =
            [op |-> op, calls |-> c.calls,
             applied |-> c.editor.restoreTimers > render.restoreTimers,
             before |-> EditorState(ed)]]

\* A step that renders nothing, with the calls of onChange it made.
NotRendered(op, e, made) ==
    [e EXCEPT !.last = [op |-> op, calls |-> made, applied |-> FALSE,
                        before |-> EditorState(ed)]]

\* The parent passes new props: another content, another isLocalUpdate.
EdProps(c, l) ==
    /\ ed.mounted
    /\ <<c, l>> # <<ed.content, ed.isLocalUpdate>>
    /\ ed' = Rendered("props", [ed EXCEPT !.content = c, !.isLocalUpdate = l])
    /\ UNCHANGED <<sync, deb, cur, sock>>

\* The parent renders again and passes a new onChange (handleContentChange
\* is created by every render of Index): the effects that depend on
\* onChange run again.
EdParentRender ==
    /\ ed.mounted
    /\ ed' = NotRendered("parentRender", ed,
                          UnmountFlush(ed) \o DebouncedSend(ed))
    /\ UNCHANGED <<sync, deb, cur, sock>>

\* The user changes the text of the surface to v: handleInput, which
\* skips the input while isProcessingUpdate.
EdInput(v) ==
    /\ ed.mounted
    /\ v # ed.surface
    /\ ed' = IF ed.isProcessingUpdate
             THEN NotRendered("input", [ed EXCEPT !.surface = v], <<>>)
             ELSE Rendered("input", [ed EXCEPT !.surface = v,
                                               !.localContent = v])
    /\ UNCHANGED <<sync, deb, cur, sock>>

\* An input method opens a composition session: handleCompositionStart.
EdCompositionStart ==
    /\ ed.mounted
    /\ ~ed.composing
    /\ ed' = Rendered("compositionStart",
                       [ed EXCEPT !.composing = TRUE, !.isComposing = TRUE])
    /\ UNCHANGED <<sync, deb, cur, sock>>

\* The composition session ends: handleCompositionEnd takes the text of
\* the surface and sets a timeout of 50 ms that will clear isComposing.
EdCompositionEnd ==
    /\ ed.mounted
    /\ ed.composing
    /\ ed.composeTimers < MaxTimers
    /\ ed' = Rendered("compositionEnd",
                       [ed EXCEPT !.composing = FALSE,
                                  !.localContent = ed.surface,
                                  !.composeTimers = @ + 1])
    /\ UNCHANGED <<sync, deb, cur, sock>>

\* A timeout of handleCompositionEnd fires: setIsComposing(false).
EdComposeTimer ==
    /\ ed.composeTimers > 0
    /\ ed' = IF ed.mounted
             THEN Rendered("composeTimer",
                           [ed EXCEPT !.composeTimers = @ - 1,
                                      !.isComposing = FALSE])
             ELSE NotRendered("composeTimer",
                              [ed EXCEPT !.composeTimers = @ - 1], <<>>)
    /\ UNCHANGED <<sync, deb, cur, sock>>

\* The timeout of the external-update effect fires: restoreCursorPosition()
\* and setIsProcessingUpdate(false).  Nothing has cleared the timeout when
\* the editor was unmounted; then the ref is empty and the state update is
\* dropped.
EdRestoreTimer ==
    /\ ed.restoreTimers > 0
    /\ ed' = IF ed.mounted
             THEN Rendered("restoreTimer",
                           [ed EXCEPT !.restoreTimers = @ - 1,
                                      !.isProcessingUpdate = FALSE])
             ELSE NotRendered("restoreTimer",
                              [ed EXCEPT !.restoreTimers = @ - 1], <<>>)
    /\ UNCHANGED <<sync, deb, cur, sock>>

\* useDebounce(localContent, 300) emits: the debounced content becomes the
\* local content.
EdDebounced ==
    /\ ed.mounted
    /\ ed.debouncedContent # ed.localContent
    /\ ed' = Rendered("debounced",
                       [ed EXCEPT !.debouncedContent = ed.localContent])
    /\ UNCHANGED <<sync, deb, cur, sock>>

\* The editor is unmounted: React runs the cleanups of its effects.
EdUnmount ==
    /\ ed.mounted
    /\ ed' = NotRendered("unmount", [ed EXCEPT !.mounted = FALSE],
                          UnmountFlush(ed))
    /\ UNCHANGED <<sync, deb, cur, sock>>

\* The editor is mounted with any content.
EditorInit ==
    /\ \E c \in Texts : ed = InitialEditor(c)
    /\ deb = InitialDebounce
    /\ cur = IdleCursor
    /\ sock = InitialSocket
    /\ SyncInit

EditorNext ==
    \/ \E c \in Texts, l \in BOOLEAN : EdProps(c, l)
    \/ EdParentRender
    \/ \E v \in Texts : EdInput(v)
    \/ EdCompositionStart
    \/ EdCompositionEnd
    \/ EdComposeTimer
    \/ EdRestoreTimer
    \/ EdDebounced
    \/ EdUnmount

SpecEditor == EditorInit /\ [][EditorNext]_vars

(* ------------------------ restoreCursorPosition ------------------------ *)

\* The walk taking the saved offset as the offset within the node.
RECURSIVE FindPosition_AbsoluteOffset(_, _, _, _)
FindPosition_AbsoluteOffset(runs, target, i, currentPos) ==
    IF i > Len(runs)
    THEN [node |-> 0, offset |-> 0]
    ELSE IF currentPos + runs[i] >= target
    THEN [node |-> i, offset |-> target]
    ELSE FindPosition_AbsoluteOffset(runs, target, i + 1, currentPos + runs[i])

\* The walk ending at the last node when no node reaches the offset.
RECURSIVE FindPosition_Clamped(_, _, _, _)
FindPosition_Clamped(runs, target, i, currentPos) ==
    IF i > Len(runs)
    THEN IF runs = <<>> THEN [node |-> 0, offset |-> 0]
         ELSE [node |-> Len(runs), offset |-> runs[Len(runs)]]
    ELSE IF currentPos + runs[i] >= target
    THEN [node |-> i, offset |-> target - currentPos]
    ELSE FindPosition_Clamped(runs, target, i + 1, currentPos + runs[i])

\* The walk comparing with > where the code has >=.
RECURSIVE FindPosition_Strict(_, _, _, _)
FindPosition_Strict(runs, target, i, currentPos) ==
    IF i > Len(runs)
    THEN [node |-> 0, offset |-> 0]
    ELSE IF currentPos + runs[i] > target
    THEN [node |-> i, offset |-> target - currentPos]
    ELSE FindPosition_Strict(runs, target, i + 1, currentPos + runs[i])

\* The loop `while ((node = walker.nextNode()))` of restoreCursorPosition
\* from the i-th text node on, currentPos characters into the text: the
\* first node with currentPos + nodeLength >= target, and the offset
\* target - currentPos in it; node 0 is null, no node found.  runs[i] is
\* the length of the i-th text node.
RECURSIVE FindPosition(_, _, _, _)
FindPosition(runs, target, i, currentPos) ==
    IF i > Len(runs)
    THEN [node |-> 0, offset |-> 0]
    ELSE IF currentPos + runs[i] >= target
    THEN [node |-> i, offset |-> target - currentPos]
    ELSE FindPosition(runs, target, i + 1, currentPos + runs[i])

\* Range.setStart / Range.setEnd throw IndexSizeError for an offset that
\* is negative or greater than the length of the node.
RangeThrows(runs, pos) ==
    pos.offset < 0 \/ pos.offset > runs[pos.node]

\* restoreCursorPosition(editorElement, {start, end}) on a surface whose
\* text nodes have the lengths runs: found tells whether both nodes were
\* found and a range was built, ok is the boolean returned (a selection
\* was set), caught whether the catch block ran.  Without the focus the
\* function returns before the walk.  No exception leaves the function:
\* the walk and the range are inside try/catch.
RestoreCursorPosition(runs, start, end, focused) ==
    LET null == [node |-> 0, offset |-> 0]
        s == IF focused THEN FindPosition(runs, start, 1, 0) ELSE null
        e == IF focused THEN FindPosition(runs, end, 1, 0) ELSE null
        found == s.node # 0 /\ e.node # 0
        threw == found /\ (RangeThrows(runs, s) \/ RangeThrows(runs, e))
    IN  [found |-> found,
         startNode |-> s.node, startOffset |-> s.offset,
         endNode |-> e.node, endOffset |-> e.offset,
         caught |-> threw,
         raised |-> FALSE,
         ok |-> found /\ ~threw]

\* The surfaces and the saved positions restoreCursorPosition is called
\* with: any text nodes, any offsets, the editor focused or not.
CursorInit ==
    /\ \E n \in 0..MaxRuns :
          \E runs \in [1..n -> 0..MaxRunLength] :
             \E start \in 0..MaxOffset, end \in 0..MaxOffset,
                focused \in BOOLEAN :
                cur = [runs |-> runs, start |-> start, end |-> end,
                       focused |-> focused, result |-> None]
    /\ deb = InitialDebounce
    /\ ed = InitialEditor("")
    /\ sock = InitialSocket
    /\ SyncInit

\* The call is made.
CursorRestore ==
    /\ cur.result = None
    /\ cur' = [cur EXCEPT !.result =
                  RestoreCursorPosition(cur.runs, cur.start, cur.end,
                                        cur.focused)]
    /\ UNCHANGED <<sync, deb, ed, sock>>

CursorNext == CursorRestore

SpecCursor == CursorInit /\ [][CursorNext]_vars

(* ---------------------------- useSocketSync ---------------------------- *)

\* The session of useSocketSync; the other clients write through the same
\* server.
SocketClient == "A"

\* useSocketSync without its history.
SocketState(k) == [k EXCEPT !.last = None]

\* The promise of save i settles (resolve or reject; settling twice does
\* nothing) and the finally block of saveContent runs: setIsSaving(false).
Settle(k, i) ==
    IF k.saves[i].settled
    THEN k
    ELSE [k EXCEPT !.saves[i].settled = TRUE, !.isSaving = FALSE]

\* onSaved of save i on a document_saved message: it stops listening; on
\* success it sets the content to the text of the save and lastSaved to the
\* time of the acknowledgement.  The timeout of the save is left pending.
OnSaved(k, i, success) ==
    LET k1 == [k EXCEPT !.saves[i].listening = FALSE,
                        !.saves[i].acked =
                           IF success THEN "success" ELSE "failure"]
        k2 == IF success
              THEN [k1 EXCEPT !.content = k.saves[i].text,
                              !.lastSaved = Date(k.now)]
              ELSE k1
    IN  Settle(k2, i)

\* The socket emits document_saved to every onSaved that listens, in the
\* order of their registration.
RECURSIVE EmitSaved(_, _, _)
EmitSaved(k, success, i) ==
    IF i > Len(k.saves)
    THEN k
    ELSE EmitSaved(IF k.saves[i].listening THEN OnSaved(k, i, success) ELSE k,
                   success, i + 1)

\* saveContent(newContent) of useSocketSync up to its await: empty text is
\* refused; otherwise isSaving is set, the update is sent, onSaved is
\* registered and a timeout of 5000 ms is set.
SockSaveContent(x) ==
    /\ Len(sock.saves) < MaxSaves
    /\ sock' =
         IF x = ""
         THEN [sock EXCEPT !.last = [op |-> "refused",
                                     before |-> SocketState(sock)]]
         ELSE [sock EXCEPT
                 !.isSaving = TRUE,
                 !.unacked = @ + 1,
                 !.saves = Append(@, [text |-> x, listening |-> TRUE,
                                      timer |-> TRUE,
                                      due |-> sock.now + SaveTimeout,
                                      acked |-> "none", settled |-> FALSE]),
                 !.last = [op |-> "saveContent", x |-> x,
                           before |-> SocketState(sock)]]
    /\ UNCHANGED <<sync, ui>>

\* The server answers an update with document_saved, success or not.
SockSaved(success) ==
    /\ sock.unacked > 0
    /\ sock' = [EmitSaved(sock, success, 1) EXCEPT
                  !.unacked = sock.unacked - 1,
                  !.last = [op |-> "saved", success |-> success,
                            before |-> SocketState(sock)]]
    /\ UNCHANGED <<sync, ui>>

\* The timeout of save i fires, at its time or later; nothing has cleared
\* it: onSaved stops listening, the content is set to the text of the save
\* and lastSaved to the present time, and the promise is resolved.
SockTimeout(i) ==
    /\ i \in 1..Len(sock.saves)
    /\ sock.saves[i].timer
    /\ sock.now >= sock.saves[i].due
    /\ sock' = [Settle([sock EXCEPT !.saves[i].timer = FALSE,
                                    !.saves[i].listening = FALSE,
                                    !.content = sock.saves[i].text,
                                    !.lastSaved = Date(sock.now)], i)
                 EXCEPT !.last = [op |-> "timeout", i |-> i,
                                  before |-> SocketState(sock)]]
    /\ UNCHANGED <<sync, ui>>

\* The document_updated handler on an update with text y of client from:
\* the session's own update is skipped, another client's is applied.
SockUpdated(y, from) ==
    /\ sock' = [(IF from = SocketClient
                 THEN sock
                 ELSE [sock EXCEPT !.content = y,
                                   !.lastSaved = Date(sock.now)])
                 EXCEPT !.last = [op |-> "updated", from |-> from,
                                  before |-> SocketState(sock)]]
    /\ UNCHANGED <<sync, ui>>

\* Time passes on the timer clock.
SockTick ==
    /\ sock.now < MaxNow
    /\ sock' = [sock EXCEPT !.now = @ + 1, !.last = [op |-> "tick"]]
    /\ UNCHANGED <<sync, ui>>

SocketNext ==
    \/ \E x \in Texts : SockSaveContent(x)
    \/ \E success \in BOOLEAN : SockSaved(success)
    \/ \E i \in 1..MaxSaves : SockTimeout(i)
    \/ \E y \in Texts, from \in Clients : SockUpdated(y, from)
    \/ SockTick

SpecSocket == Init /\ [][SocketNext]_vars

(* ------------------------------ properties ----------------------------- *)

\* The last step was the postgres_changes callback of a session.
Delivered == ev.op = "deliver"

\* The session state a notification may or may not change.
Same(h, g) ==
    /\ h.content = g.content
    /\ h.lastSavedContentRef = g.lastSavedContentRef
    /\ h.documentVersionRef = g.documentVersionRef
    /\ h.lastServerTimestampRef = g.lastServerTimestampRef

\* The session has taken over the notification p.
TookOver(h, p) ==
    /\ h.content = p.content
    /\ h.lastSavedContentRef = p.content
    /\ h.documentVersionRef = p.version
    /\ h.lastServerTimestampRef = p.updated_at

\* C1: a notification that carries the session's own client_id is rejected
\* whatever its version and timestamp: content, lastSavedContent, the known
\* version and the last timestamp are what they were before it arrived.
C1_OwnEchoRejected ==
    (Delivered /\ ev.p.client_id = ev.s) => Same(hook[ev.s], ev.before)

\* An own echo has arrived that is newer than the session's last timestamp
\* and carries a text the session does not yet count as saved.
C1_Witness ==
    /\ Delivered
    /\ ev.p.client_id = ev.s
    /\ ev.p.updated_at > ev.before.lastServerTimestampRef
    /\ ev.p.content # ev.before.lastSavedContentRef
    /\ Same(hook[ev.s], ev.before)

\* C2: a notification of another client with a timestamp strictly greater
\* than the last timestamp is accepted whatever its version: afterwards
\* content and lastSavedContent are its content, the known version is its
\* version and the last timestamp is its timestamp.
C2_NewerTimestampAccepted ==
    (/\ Delivered
     /\ ev.p.client_id # ev.s
     /\ ev.p.updated_at > ev.before.lastServerTimestampRef)
    => TookOver(hook[ev.s], ev.p)

\* A newer notification has been accepted whose version is not above the
\* version the session knew.
C2_Witness ==
    /\ Delivered
    /\ ev.p.client_id # ev.s
    /\ ev.p.updated_at > ev.before.lastServerTimestampRef
    /\ ev.p.version <= ev.before.documentVersionRef
    /\ ev.p.content # ev.before.content
    /\ TookOver(hook[ev.s], ev.p)

Stale(p, h) ==
    \/ p.updated_at < h.lastServerTimestampRef
    \/ /\ p.updated_at = h.lastServerTimestampRef
       /\ p.version <= h.documentVersionRef

\* C4: a stale notification of another client (an older timestamp, or an
\* equal timestamp with a version not above the known version) is rejected
\* and changes nothing: content, lastSavedContent, the known version, the
\* last timestamp and lastSaved stay as they were.
C4_StaleRejected ==
    (Delivered /\ ev.p.client_id # ev.s /\ Stale(ev.p, ev.before))
    => (/\ Same(hook[ev.s], ev.before)
        /\ hook[ev.s].lastSaved = ev.before.lastSaved)

\* A stale notification with an equal timestamp and another text than the
\* session shows has arrived.
C4_Witness ==
    /\ Delivered
    /\ ev.p.client_id # ev.s
    /\ ev.p.updated_at = ev.before.lastServerTimestampRef
    /\ ev.p.version <= ev.before.documentVersionRef
    /\ ev.p.content # ev.before.content
    /\ hook[ev.s] = ev.before

\* C6: when the same notification is delivered to a session twice in a row,
\* the second delivery is rejected and leaves the session as the first
\* delivery left it.
C6_DuplicateRejected ==
    (Delivered /\ ev.again) => (~ev.applied /\ hook[ev.s] = ev.before)

\* A notification the session had accepted has been delivered again.
C6_Witness ==
    /\ Delivered
    /\ ev.again
    /\ ev.p.client_id # ev.s
    /\ TookOver(hook[ev.s], ev.p)

\* C7: saveContent(x) with x equal to lastSavedContentRef issues no backend
\* write and leaves the known version, content, isSaving and isLocalUpdate
\* unchanged.
C7_UnchangedSaveIsNoOp ==
    (ev.op = "saveContent" /\ ev.x = ev.before.lastSavedContentRef)
    => (/\ hook[ev.s].saveCall = None
        /\ hook[ev.s].documentVersionRef = ev.before.documentVersionRef
        /\ hook[ev.s].content = ev.before.content
        /\ hook[ev.s].isSaving = ev.before.isSaving
        /\ hook[ev.s].isLocalUpdate = ev.before.isLocalUpdate)

\* saveContent has been called with the saved text while the session shows
\* another text.
C7_Witness ==
    /\ ev.op = "saveContent"
    /\ ev.x = ev.before.lastSavedContentRef
    /\ ev.x # ev.before.content
    /\ hook[ev.s] = ev.before

\* C5: over any sequence of notifications of other clients, with no save
\* and no refresh of the session in between, the known version and the last
\* timestamp are those of the notification accepted last, and no
\* notification strictly older than an accepted one is accepted.
C5_LastAcceptedStands ==
    /\ \A s \in Clients :
          (/\ hook[s].lastAccepted # None
           /\ hook[s].saveCall = None
           /\ hook[s].refreshCall = None) =>
             /\ hook[s].documentVersionRef = hook[s].lastAccepted.version
             /\ hook[s].lastServerTimestampRef = hook[s].lastAccepted.updated_at
    /\ (Delivered /\ ev.applied /\ ev.before.lastAccepted # None) =>
          ev.p.updated_at >= ev.before.lastAccepted.updated_at

\* The last step was the continuation of a saveContent whose call failed.
SaveFailed ==
    /\ ev.op = "saveHandle"
    /\ ev.before.saveCall.result \in {"error", "throw"}

\* C8: when the persist call of saveContent fails (no other session writes,
\* nobody refreshes), the known version after the call is the known version
\* from before the call.
C8_FailedSaveRestoresVersion ==
    SaveFailed =>
       hook[ev.s].documentVersionRef = ev.before.saveCall.version - 1

\* C9: after saveContent(x) has failed the text is not dropped: content
\* still is x and lastSavedContent still is another text, the one persisted
\* before, so that saveContent(x) is not skipped when called again.
C9_FailedSaveKeepsText ==
    SaveFailed =>
       /\ hook[ev.s].content = ev.before.saveCall.content
       /\ hook[ev.s].lastSavedContentRef # ev.before.saveCall.content
       /\ hook[ev.s].lastSavedContentRef = row.content

\* C10: with A's "foo" committed at T1 and B's "bar" at T2 > T1, both from
\* version 2, the row ends as "bar", version 3, and A, on receiving B's
\* notification, ends with content "bar", in whichever order A's
\* acknowledgement and the notification arrive.
C10_LaterWriteWinsAtA ==
    /\ row.client_id = "B" => (row.content = "bar" /\ row.version = 3)
    /\ (Delivered /\ ev.s = "A" /\ ev.p.client_id = "B") =>
          hook["A"].content = "bar"

\* C11: A creates the absent document (version 1, empty text), B loads it
\* (empty text, known version 1), A saves "hello": the row gets version 2,
\* and once B's listener has received the notification B shows "hello" and
\* knows version 2.
C11_FirstEditReachesB ==
    /\ (row # None /\ row.content = initialContent) =>
          (row.version = 1 /\ row.client_id = "A")
    /\ (ev.op = "initFetchHandle" /\ ev.s = "B" /\ row.version = 1) =>
          (hook["B"].content = "" /\ hook["B"].documentVersionRef = 1)
    /\ (row # None /\ row.content = "hello") => row.version = 2
    /\ (Delivered /\ ev.s = "B") =>
          /\ ev.p = [content |-> "hello", client_id |-> "A", version |-> 2,
                     updated_at |-> row.updated_at]
          /\ hook["B"].content = "hello"
          /\ hook["B"].lastSavedContentRef = "hello"
          /\ hook["B"].documentVersionRef = 2

\* B, which had loaded the empty document at version 1, has received the
\* notification of A's save and has taken it over.
C11_Witness ==
    /\ Delivered
    /\ ev.s = "B"
    /\ ev.before.content = ""
    /\ ev.before.documentVersionRef = 1
    /\ ev.applied
    /\ hook["B"].content = "hello"
    /\ hook["B"].documentVersionRef = 2
    /\ row.version = 2

\* C12: every committed write to the row raises the row's version by
\* exactly 1 over the version the row had just before the write, whichever
\* sessions write and however their writes interleave.
C12_VersionStepsByOne ==
    [][(row # None /\ row' # row) => row'.version = row.version + 1]_vars

\* C13: the persist call issued by saveContent(x) carries x, the session's
\* clientId and the known version from before the call plus 1; and from the
\* issue of the call until its return the session's content and its
\* local-storage backup both are x.
C13_PersistCallCarriesText ==
    /\ (ev.op = "saveContent" /\ ev.x # ev.before.lastSavedContentRef) =>
          hook[ev.s].saveCall =
             [content |-> ev.x, client_id |-> ev.s,
              version |-> ev.before.documentVersionRef + 1,
              result |-> "pending"]
    /\ \A s \in Clients :
          hook[s].saveCall # None =>
             /\ hook[s].content = hook[s].saveCall.content
             /\ hook[s].localStorage = Item(hook[s].saveCall.content)

\* C14: a saveContent call that is not skipped sets isSaving before it
\* issues the persist call, isSaving stays set while the call is out, and
\* it is false again once the call has returned, whether the call succeeded
\* or failed; a failed save does not touch the error state.
C14_SavingFlagBracketsCall ==
    /\ (ev.op = "saveContent" /\ ev.x # ev.before.lastSavedContentRef) =>
          (hook[ev.s].isSaving /\ hook[ev.s].saveCall # None)
    /\ \A s \in Clients : hook[s].isSaving <=> hook[s].saveCall # None
    /\ ev.op = "saveHandle" =>
          /\ ev.before.isSaving
          /\ ~hook[ev.s].isSaving
          /\ hook[ev.s].error = ev.before.error

\* A persist call has failed and its saveContent has finished: isSaving is
\* false again and there is no error state.
C14_Witness ==
    /\ SaveFailed
    /\ ev.before.isSaving
    /\ ~hook[ev.s].isSaving
    /\ hook[ev.s].error = NoError

\* The last step was the continuation of a refreshContent whose fetch
\* returned the row.
RefreshSucceeded ==
    /\ ev.op = "refreshHandle"
    /\ ev.before.refreshCall.result = "data"

\* C15: after refreshContent has completed successfully the session's
\* content is the content of the row its fetch returned, whether or not the
\* local content was dirty and whether or not the row's timestamp is newer
\* than the last timestamp.
C15_RefreshTakesServerText ==
    RefreshSucceeded =>
       hook[ev.s].content = ev.before.refreshCall.data.content

\* The last step was the continuation of a refreshContent whose fetch
\* failed, with an error result or with an exception.
RefreshFailed ==
    /\ ev.op = "refreshHandle"
    /\ ev.before.refreshCall.result \in {"error", "throw"}

\* C16: when the fetch of refreshContent fails, content, lastSavedContent,
\* the known version, the last timestamp and the error state are left as
\* they were, and isRefreshing is false once the call has returned.
C16_FailedRefreshChangesNothing ==
    RefreshFailed =>
       /\ Same(hook[ev.s], ev.before)
       /\ hook[ev.s].error = ev.before.error
       /\ hook[ev.s].lastSaved = ev.before.lastSaved
       /\ ~hook[ev.s].isRefreshing

\* A refresh has failed in a session that was refreshing and whose text
\* differs from the row's.
C16_Witness ==
    /\ RefreshFailed
    /\ ev.before.isRefreshing
    /\ row # None
    /\ row.content # hook[ev.s].content
    /\ hook[ev.s].error = NoError
    /\ ~hook[ev.s].isRefreshing

\* C17: when the initial fetch reports not-found, initializeDocument issues
\* an insert; the row the insert creates has the initial content, version 1
\* and the session's clientId; and when the insert has succeeded the
\* session is not loading, has no error, knows version 1 and shows the
\* initial content.
C17_NotFoundCreatesRow ==
    [][/\ (ev'.op = "initFetchHandle" /\ ev'.resp.kind = "PGRST116") =>
             hook'[ev'.s].insertCall = [result |-> "pending"]
       /\ (row = None /\ row' # None) =>
             \E s \in Clients :
                /\ hook[s].insertCall = [result |-> "pending"]
                /\ row'.content = initialContent
                /\ row'.version = 1
                /\ row'.client_id = s
       /\ (ev'.op = "insertHandle" /\ ev'.before.insertCall.result = "ok") =>
             /\ ~hook'[ev'.s].loading
             /\ hook'[ev'.s].error = NoError
             /\ hook'[ev'.s].documentVersionRef = 1
             /\ hook'[ev'.s].content = initialContent]_vars

\* A session whose fetch found no document has created the row and has
\* finished initializing.
C17_Witness ==
    /\ ev.op = "insertHandle"
    /\ ev.before.insertCall.result = "ok"
    /\ ev.before.loading
    /\ row # None
    /\ row.client_id = ev.s
    /\ row.version = 1
    /\ ~hook[ev.s].loading
    /\ hook[ev.s].documentVersionRef = 1

\* The last step was initializeDocument continuing after its first fetch,
\* which failed for another reason than not-found.
FirstFetchFailed ==
    /\ ev.op = "initFetchHandle"
    /\ ev.resp.kind = "error"
    /\ ev.before.loading

\* C18: when the initial fetch fails for another reason than not-found the
\* session gets the error state, its content is the local-storage backup
\* if there is one for the document, and no insert is issued.
C18_LoadFailureRecoversBackup ==
    FirstFetchFailed =>
       /\ hook[ev.s].error # NoError
       /\ ev.before.localStorage # None =>
             hook[ev.s].content = ev.before.localStorage.value
       /\ hook[ev.s].insertCall = None

\* The first fetch has failed in a browser that held the backup "foo", on a
\* document that does not exist: the session shows "foo" under the error.
C18_Witness ==
    /\ FirstFetchFailed
    /\ ev.before.localStorage = Item("foo")
    /\ ev.before.content = ""
    /\ hook[ev.s].content = "foo"
    /\ hook[ev.s].error = LoadError
    /\ row = None

\* The last step was a handler of a session that had completed its
\* initialization successfully: it was not loading and had no error.
AfterGoodLoad ==
    /\ ev.op \notin {"mount", "backend"}
    /\ ~ev.before.loading
    /\ ev.before.error = NoError

\* C19: once initialization has completed successfully (loading false,
\* error null) the error state stays null: no failed save, failed refresh,
\* content change or later fetch sets it.
C19_NoErrorAfterLoad ==
    AfterGoodLoad => hook[ev.s].error = NoError

\* C20: at every moment a session has at most one active listener on the
\* change notifications of its document, after any saves, accepted
\* notifications and refreshes, so that a notification the backend delivers
\* is evaluated at most once by the session.
C20_AtMostOneListener ==
    \A s \in Clients : hook[s].listeners <= 1

\* The debouncer's last step was a new input that arrived while a timeout
\* was pending.
InputWhilePending ==
    /\ deb.last.op = "input"
    /\ deb.last.before.timers # {}

\* C23: useDebounce emits a value only when the input has stayed unchanged
\* for the full delay; every new input that arrives while a timeout is
\* pending cancels it and starts a new one; so at most one timeout is
\* pending, nothing is emitted at the leading edge, and the value emitted is
\* the latest input.
C23_TrailingEdgeOnly ==
    /\ Cardinality(deb.timers) <= 1
    /\ deb.last.op = "input" =>
          deb.debouncedValue = deb.last.before.debouncedValue
    /\ deb.last.op = "fire" =>
          /\ deb.debouncedValue = deb.value
          /\ deb.now - deb.changedAt >= Delay
    /\ InputWhilePending =>
          deb.timers = {[value |-> deb.last.v, due |-> deb.now + Delay]}

\* The parts of C23 that do not depend on a timeout being started: at most
\* one timeout, no emission at the leading edge, the latest input emitted
\* after a full delay of quiet, and a pending timeout cancelled by a new
\* input.
C23_Consequences ==
    /\ Cardinality(deb.timers) <= 1
    /\ deb.last.op = "input" =>
          deb.debouncedValue = deb.last.before.debouncedValue
    /\ deb.last.op = "fire" =>
          /\ deb.debouncedValue = deb.value
          /\ deb.now - deb.changedAt >= Delay
    /\ InputWhilePending =>
          deb.timers \cap deb.last.before.timers = {}

\* C24: when the input has changed away from the value emitted last and
\* returns to it before the timeout fires, a timeout stays pending, so that
\* the emission still fires after the quiet period.
C24_RevertStillEmits ==
    (InputWhilePending /\ deb.last.v = deb.debouncedValue) =>
       \E t \in deb.timers : t.value = deb.last.v

\* C21: after the teardown of a session its listener is unsubscribed: a
\* notification committed after the teardown does not change the session's
\* content, known version or last timestamp.
C21_TeardownUnsubscribes ==
    (Delivered /\ ~ev.before.mounted) =>
       /\ hook[ev.s].content = ev.before.content
       /\ hook[ev.s].documentVersionRef = ev.before.documentVersionRef
       /\ hook[ev.s].lastServerTimestampRef = ev.before.lastServerTimestampRef

\* C22: a session never has two persist calls in flight at the same time:
\* with the Index host a save that issues a persist call starts only while
\* isSaving is false and no earlier call of the session is out.
C22_OnePersistCallAtATime ==
    (ev.op = "saveContent" /\ ev.x # ev.before.lastSavedContentRef) =>
       (~ev.before.isSaving /\ ev.before.saveCall = None)

\* A session that has completed a save has issued the persist call of its
\* next save.
C22_Witness ==
    /\ ev.op = "saveContent"
    /\ ev.x # ev.before.lastSavedContentRef
    /\ ev.before.resetTimers > 0
    /\ ev.before.saveCall = None
    /\ hook[ev.s].saveCall # None
    /\ hook[ev.s].isSaving

\* C25: in TextEditor, while a composition session is open (isComposing is
\* true), a change of the content prop does not replace the local text or
\* the text of the surface; the replacement happens only once the
\* composition has ended.
C25_NoExternalTextWhileComposing ==
    (ed.last.op # "mount" /\ ed.last.applied) =>
       (~ed.isComposing /\ ~ed.composing)

\* C26: when TextEditor is torn down while its local text differs from the
\* content prop (an edit the debouncer has not emitted yet), onChange is
\* called, in the teardown itself, with the local text; when the two are
\* equal onChange is not called.
C26_UnmountFlushesEdit ==
    ed.last.op = "unmount" =>
       ed.last.calls = IF ed.last.before.localContent # ed.last.before.content
                       THEN <<ed.last.before.localContent>>
                       ELSE <<>>

\* The editor has been torn down with an edit the debouncer had not yet
\* emitted, and onChange has been called with it.
C26_Witness ==
    /\ ed.last.op = "unmount"
    /\ ed.last.before.localContent # ed.last.before.content
    /\ ed.last.before.debouncedContent = ed.last.before.content
    /\ ed.last.calls = <<ed.last.before.localContent>>

\* C27: when the editor is torn down while a cursor-restoration timeout is
\* pending, the timeout is cancelled: no restoration and no change of
\* isProcessingUpdate runs after the teardown.
C27_TeardownCancelsRestore ==
    ed.last.op = "restoreTimer" => ed.last.before.mounted

\* The total length of the first i text nodes.
RECURSIVE Cumulative(_, _)
Cumulative(runs, i) == IF i = 0 THEN 0 ELSE Cumulative(runs, i - 1) + runs[i]

\* The total length of the text nodes.
TotalLength(runs) == Cumulative(runs, Len(runs))

\* restoreCursorPosition has been called.
Restored == cur.result # None

\* C28: for every saved pair start <= end and every replacement text,
\* restoreCursorPosition raises nothing, and a selection it sets is in
\* bounds: each offset lies between 0 and the length of its text node, and
\* 0 <= start of the range <= end of the range <= length of the new text.
C28_RestoredRangeInBounds ==
    (Restored /\ cur.start <= cur.end) =>
       /\ ~cur.result.raised
       /\ cur.result.found =>
             LET r == cur.result
                 from == Cumulative(cur.runs, r.startNode - 1) + r.startOffset
                 to == Cumulative(cur.runs, r.endNode - 1) + r.endOffset
             IN  /\ r.ok
                 /\ 0 <= r.startOffset /\ r.startOffset <= cur.runs[r.startNode]
                 /\ 0 <= r.endOffset /\ r.endOffset <= cur.runs[r.endNode]
                 /\ 0 <= from /\ from <= to /\ to <= TotalLength(cur.runs)

\* A selection that starts in one text node and ends in a later one has
\* been restored.
C28_Witness ==
    /\ Restored
    /\ cur.start < cur.end
    /\ cur.result.ok
    /\ cur.result.startNode < cur.result.endNode
    /\ cur.result.startOffset > 0

\* C29: when the saved start or the saved end is greater than the total
\* length of the text nodes, restoreCursorPosition sets no selection and
\* reports failure.
C29_BeyondTextIsNoOp ==
    (/\ Restored
     /\ \/ cur.start > TotalLength(cur.runs)
        \/ cur.end > TotalLength(cur.runs))
    => (~cur.result.found /\ ~cur.result.ok)

\* The saved end lies beyond a text that the saved start still fits, in a
\* focused editor, and nothing has been selected.
C29_Witness ==
    /\ Restored
    /\ cur.focused
    /\ cur.runs # <<>>
    /\ cur.start <= TotalLength(cur.runs)
    /\ cur.end > TotalLength(cur.runs)
    /\ cur.result.startNode # 0
    /\ ~cur.result.ok

\* The first text node whose cumulative length reaches the offset o.
FirstReaching(runs, o) ==
    CHOOSE i \in 1..Len(runs) :
       /\ Cumulative(runs, i) >= o
       /\ \A j \in 1..(i - 1) : Cumulative(runs, j) < o

\* C30: for every sequence of text-run lengths and every offset o from 0
\* to their total length, the walk picks the first run whose cumulative
\* length is >= o, with the in-run offset o minus the cumulative length of
\* the runs before it; start and end are mapped by this rule independently.
C30_WalkPicksFirstReachingRun ==
    (Restored /\ cur.focused /\ cur.runs # <<>>) =>
       /\ cur.start <= TotalLength(cur.runs) =>
             /\ cur.result.startNode = FirstReaching(cur.runs, cur.start)
             /\ cur.result.startOffset =
                   cur.start - Cumulative(cur.runs, cur.result.startNode - 1)
       /\ cur.end <= TotalLength(cur.runs) =>
             /\ cur.result.endNode = FirstReaching(cur.runs, cur.end)
             /\ cur.result.endOffset =
                   cur.end - Cumulative(cur.runs, cur.result.endNode - 1)

\* The saved start is exactly the end of the first text node and is mapped
\* into that node; the saved end is mapped into the third node; the saved
\* start is after the saved end of no node in between.
C30_Witness ==
    /\ Restored
    /\ cur.focused
    /\ Len(cur.runs) = 3
    /\ cur.start = cur.runs[1]
    /\ cur.start > 0
    /\ cur.result.startNode = 1
    /\ cur.result.startOffset = cur.start
    /\ cur.result.endNode = 3
    /\ cur.result.endOffset < cur.end

\* C31: when a notification of another client has been accepted while a
\* save of the session was in flight, and the known version was that of the
\* notification when the save failed, the known version after the failure
\* still is the version of the accepted notification.
C31_RollbackKeepsRemoteVersion ==
    (/\ SaveFailed
     /\ ev.before.lastAccepted # None
     /\ ev.before.documentVersionRef = ev.before.lastAccepted.version)
    => hook[ev.s].documentVersionRef = ev.before.lastAccepted.version

\* The session holds a text that is not persisted: a save of it is in
\* flight or has failed.
HoldsUnsavedText(h) == h.content # h.lastSavedContentRef

\* C32: with no other session writing and no refresh, saveContent(x) makes
\* x the content, and while the save of x is in flight or after it has
\* failed no fetch of the row started by the content change replaces x or
\* resets the known version.
C32_OptimisticTextNotRefetched ==
    /\ (ev.op = "saveContent" /\ ev.x # ev.before.lastSavedContentRef) =>
          hook[ev.s].content = ev.x
    /\ (/\ ev.op = "initFetchHandle"
        /\ ~ev.before.loading
        /\ HoldsUnsavedText(ev.before)) =>
          /\ hook[ev.s].content = ev.before.content
          /\ hook[ev.s].documentVersionRef = ev.before.documentVersionRef

\* The last step was an input event that handleInput took (it was not
\* skipped for isProcessingUpdate): the local text became the text of the
\* surface.
InputTaken ==
    /\ ed.last.op = "input"
    /\ ~ed.last.before.isProcessingUpdate

\* C33: when an input event has set the local text, with the content prop
\* unchanged, the external-update effect does not run its replacement: the
\* local text is not set back to the content prop.
C33_InputNotReverted ==
    InputTaken =>
       /\ ~ed.last.applied
       /\ ed.localContent = ed.surface
       /\ ed.isProcessingUpdate = ed.last.before.isProcessingUpdate

\* The last step was an input event that handleInput took while the local
\* text was an earlier input's, one that the parent does not have and the
\* debouncer still held back: the event is a later one of a burst.
InputInBurst ==
    /\ InputTaken
    /\ ed.mounted
    /\ ed.last.before.localContent # ed.last.before.content
    /\ ed.last.before.localContent # ed.last.before.debouncedContent

\* C34: an input event of a burst makes no call of onChange: a text of the
\* burst reaches onChange only when the debouncer emits after the quiet
\* period, never at an input event and never while it is an intermediate
\* text.
C34_BurstEmitsOnceAfterQuiet ==
    InputInBurst => ed.last.calls = <<>>

\* C35: isLocalUpdate is true in every state in which a persist call of
\* the session is in flight, also when an earlier save of the session has
\* left its delayed reset pending.
C35_FlagCoversPersistCall ==
    \A s \in Clients :
       (hook[s].saveCall # None /\ hook[s].saveCall.result = "pending") =>
          hook[s].isLocalUpdate

\* No save of any session is in flight.
NoSaveInFlight == \A t \in Clients : hook[t].saveCall = None

\* No call of session s is out, its initialization included.
AtRest(s) ==
    /\ hook[s].saveCall = None
    /\ hook[s].refreshCall = None
    /\ hook[s].insertCall = None
    /\ hook[s].initFetch = 0
    /\ hook[s].initResp = {}

\* C36: after two sessions have written and the other session's write has
\* been committed last, once no save is in flight, session A is at rest
\* and the notification of the row as it stands has been delivered to A
\* (the notifications of A's own writes change nothing at A), A's content
\* is the content of the row.
C36_QuiescentContentIsRow ==
    (/\ Delivered
     /\ ev.s = "A"
     /\ ev.p = Payload(row)
     /\ row.client_id # "A"
     /\ NoSaveInFlight
     /\ AtRest("A"))
    => hook["A"].content = row.content

\* C37: a session whose first fetch found no row, and none of whose backend
\* calls failed for a reason of the backend, finishes initializeDocument
\* without error, with known version 1 and an active listener, also when
\* another session has created the row in the meantime.
C37_ConcurrentCreateBothReady ==
    (ev.op = "insertHandle" /\ failures = 0) =>
       /\ hook[ev.s].error = NoError
       /\ hook[ev.s].documentVersionRef = 1
       /\ hook[ev.s].listeners > 0

\* The last step was the timeout of the session's only save, whose
\* acknowledgement, a success, onSaved had handled before.
TimeoutAfterAck ==
    /\ sock.last.op = "timeout"
    /\ Len(sock.last.before.saves) = 1
    /\ sock.last.before.saves[sock.last.i].acked = "success"

\* C38: once the document_saved acknowledgement of a save has been
\* handled, the save changes the content no more: whatever has been applied
\* since, another client's update included, is still the content after the
\* timeout of the save.
C38_AckedSaveIsOver ==
    TimeoutAfterAck => sock.content = sock.last.before.content

====
